---- MODULE Spec2Model ----
(***************************************************************************)
(* Model of samtools faidx.c: the faidx / fqidx subcommand.                *)
(*                                                                         *)
(* faidx_core parses the options, then either builds an index or loads one *)
(* and emits one record per region (region-file lines first, positional    *)
(* arguments afterwards).  write_output fetches a sequence (and quality)   *)
(* from the index and write_line wraps it to the output stream.            *)
(*                                                                         *)
(* The index library (fai_build, fai_load_format, fai_fetch, fai_fetchqual,*)
(* fai_destroy, hts_parse_reg) and stdio are the environment: their        *)
(* failures are nondeterministic choices of the actions.                   *)
(***************************************************************************)
EXTENDS Integers, Sequences, FiniteSets, TLC

(* ------------------------------ bounds --------------------------------- *)
\* length of the longest sequence of the indexed file
MaxLen == 3
\* most lines of a region file
MaxLines == 2
\* most positional region arguments
MaxArgs == 2
\* most -n options on a command line
MaxNOpts == 2

(* ------------------------- program constants --------------------------- *)
DEFAULT_FASTA_LINE_LEN == 60
EXIT_SUCCESS == 0
EXIT_FAILURE == 1
INT_MAX == 2147483647
\* fai_fetch's length results on failure: name not in the index / any other
NOT_FOUND == -2
FETCH_ERROR == -1

FAI_FASTA == "FAI_FASTA"
FAI_FASTQ == "FAI_FASTQ"

\* the input file named by argv[optind], and another path
InPath == "in.fa"
OutPath == "out.fa"
NoPath == "NULL"

(* ------------------------------ regions -------------------------------- *)
\* A region specifier is the string write_output gets as name.  It is kept
\* as the sequence name nm with what hts_parse_reg makes of its range:
\* beg (0-based) and end, end = INT_MAX when the string has no range end.
Reg(n, b, e) == [nm |-> n, beg |-> b, end |-> e]
NoRegion == Reg(0, 0, 0)

\* The indexed file: sequence 1 has MaxLen bases, sequence 2 has one base,
\* sequence 3 is empty, and sequence 4 is not in the index.
IndexLen(n) == CASE n = 1 -> MaxLen
                 [] n = 2 -> 1
                 [] n = 3 -> 0
                 [] OTHER -> NOT_FOUND

Min(a, b) == IF a < b THEN a ELSE b

\* hts_parse_reg(name, &beg, &end): non-NULL (parsed) for every specifier
\* of the model; gives the range.
HtsParseReg(r) == [ok |-> TRUE, beg |-> r.beg, end |-> r.end]

\* fai_fetch / fai_fetchqual on a readable index: the length of what is
\* fetched for region r, the range clipped to the sequence; NOT_FOUND when
\* the name is not in the index.
FetchLen(r) ==
    LET n == IndexLen(r.nm) IN
    IF n = NOT_FOUND THEN NOT_FOUND
    ELSE IF r.beg >= n THEN 0
    ELSE Min(r.end, n) - r.beg

\* the bytes of a fetched buffer: base i of sequence nm is nm*100+i, its
\* quality value is the negative of that
SeqBuf(r, len) == [i \in 1..len |-> r.nm * 100 + r.beg + i]
QualBuf(r, len) == [i \in 1..len |-> 0 - (r.nm * 100 + r.beg + i)]

(* --------------------------- output lines ------------------------------ *)
\* one newline-terminated line of the output stream
HeaderLine(fmt, r) == [k |-> IF fmt = FAI_FASTA THEN ">" ELSE "@", reg |-> r, bytes |-> <<>>]
SepLine == [k |-> "+", reg |-> NoRegion, bytes |-> <<>>]
BodyLine(b) == [k |-> "body", reg |-> NoRegion, bytes |-> b]

(* ----------------------------- write_line ------------------------------ *)
\* write_line's loop with the last, shorter line left out (i + length <
\* seq_sz as the loop condition)
RECURSIVE WriteLoopDropLast(_, _, _, _, _, _, _)
WriteLoopDropLast(line, length, seq_sz, i, k, failAt, acc) ==
    IF ~(i + length < seq_sz) THEN [ret |-> EXIT_SUCCESS, lines |-> acc, warn |-> <<>>]
    ELSE IF k = failAt
         THEN [ret |-> EXIT_FAILURE, lines |-> acc, warn |-> <<"write failed">>]
         ELSE WriteLoopDropLast(line, length, seq_sz, i + length, k + 1, failAt,
                                Append(acc, BodyLine(SubSeq(line, i + 1, i + length))))

\* the for loop of write_line: i is the offset, k counts the iterations,
\* failAt is the iteration whose fwrite/fputc fails (0: none does), acc the
\* lines written so far.  A line whose write fails is not counted as
\* written.
RECURSIVE WriteLoop(_, _, _, _, _, _, _)
WriteLoop(line, length, seq_sz, i, k, failAt, acc) ==
    IF ~(i < seq_sz) THEN [ret |-> EXIT_SUCCESS, lines |-> acc, warn |-> <<>>]
    ELSE LET len == IF i + length < seq_sz THEN length ELSE seq_sz - i IN
         IF k = failAt
         THEN [ret |-> EXIT_FAILURE, lines |-> acc, warn |-> <<"write failed">>]
         ELSE WriteLoop(line, length, seq_sz, i + length, k + 1, failAt,
                        Append(acc, BodyLine(SubSeq(line, i + 1, i + len))))

\* write_line's message without the end < INT_MAX test
LineWarningNoMax(name, seq_len) ==
    LET p == HtsParseReg(name) IN
    IF seq_len < 0 THEN <<"fetch failed">>
    ELSE IF seq_len = 0 THEN <<"zero length">>
    ELSE IF p.ok /\ seq_len # p.end - p.beg THEN <<"truncated">>
    ELSE <<>>

\* the message write_line prints before the loop, if any
LineWarning(name, seq_len) ==
    LET p == HtsParseReg(name) IN
    IF seq_len < 0 THEN <<"fetch failed">>
    ELSE IF seq_len = 0 THEN <<"zero length">>
    ELSE IF p.ok /\ p.end < INT_MAX /\ seq_len # p.end - p.beg THEN <<"truncated">>
    ELSE <<>>

\* write_line with continue-mode excusing every fetch failure (ignore
\* tested without seq_len == -2)
WriteLineIgnoreAll(line, name, ignore, length, seq_len, failAt) ==
    IF seq_len < 0
    THEN [ret |-> IF ignore THEN EXIT_SUCCESS ELSE EXIT_FAILURE,
          lines |-> <<>>, warn |-> LineWarning(name, seq_len)]
    ELSE LET w == WriteLoop(line, length, seq_len, 0, 1, failAt, <<>>) IN
         [ret |-> w.ret, lines |-> w.lines, warn |-> LineWarning(name, seq_len) \o w.warn]

\* write_line(file, line, name, ignore, length, seq_len): the lines it
\* writes to file, the messages it prints and what it returns
WriteLine(line, name, ignore, length, seq_len, failAt) ==
    IF seq_len < 0
    THEN [ret |-> IF ignore /\ seq_len = NOT_FOUND THEN EXIT_SUCCESS ELSE EXIT_FAILURE,
          lines |-> <<>>, warn |-> LineWarning(name, seq_len)]
    ELSE LET w == WriteLoop(line, length, seq_len, 0, 1, failAt, <<>>) IN
         [ret |-> w.ret, lines |-> w.lines, warn |-> LineWarning(name, seq_len) \o w.warn]

\* the record of one write_line call
Call(what, name, length, seq_len, line, w) ==
    [what |-> what, name |-> name, length |-> length, seq_len |-> seq_len,
     line |-> line, ret |-> w.ret, lines |-> w.lines, warn |-> w.warn]

(* ----------------------------- write_output ---------------------------- *)
\* The environment of one write_output call: whether fai_fetch and
\* fai_fetchqual fail on a name that is in the index, and which write of
\* each body fails (0: none).
Env(se, qe, sf, qf) == [seqErr |-> se, qualErr |-> qe, seqFail |-> sf, qualFail |-> qf]

\* the length fai_fetch / fai_fetchqual report
Fetch(r, err) ==
    IF FetchLen(r) # NOT_FOUND /\ err THEN FETCH_ERROR ELSE FetchLen(r)

\* number of iterations of write_line's loop
Iterations(seq_len, length) ==
    IF seq_len <= 0 THEN 0 ELSE (seq_len + length - 1) \div length

\* write_output(faid, file, name, ignore, length, format): the lines written
\* (the header and "+" lines are printed unchecked, before the fetch result
\* is looked at),
\* the write_line calls made, how often each fetched buffer is freed
\* (free(NULL) frees nothing) and the value returned
WriteOutput(name, ignore, length, format, env) ==
    LET seq_len == Fetch(name, env.seqErr)
        seq == IF seq_len < 0 THEN <<>> ELSE SeqBuf(name, seq_len)
        seqAlloc == seq_len >= 0
        w1 == WriteLine(seq, name, ignore, length, seq_len, env.seqFail)
        c1 == Call("seq", name, length, seq_len, seq, w1)
        head == <<HeaderLine(format, name)>> \o w1.lines
        qual_len == Fetch(name, env.qualErr)
        qual == IF qual_len < 0 THEN <<>> ELSE QualBuf(name, qual_len)
        qualAlloc == qual_len >= 0
        w2 == WriteLine(qual, name, ignore, length, qual_len, env.qualFail)
        c2 == Call("qual", name, length, qual_len, qual, w2)
    IN
    IF w1.ret = EXIT_FAILURE
    THEN [ret |-> EXIT_FAILURE, lines |-> head, calls |-> <<c1>>,
          seqAlloc |-> seqAlloc, seqFrees |-> IF seqAlloc THEN 1 ELSE 0,
          qualAlloc |-> FALSE, qualFrees |-> 0]
    ELSE IF format # FAI_FASTQ
    THEN [ret |-> EXIT_SUCCESS, lines |-> head, calls |-> <<c1>>,
          seqAlloc |-> seqAlloc, seqFrees |-> IF seqAlloc THEN 1 ELSE 0,
          qualAlloc |-> FALSE, qualFrees |-> 0]
    ELSE IF w2.ret = EXIT_FAILURE
    THEN [ret |-> EXIT_FAILURE, lines |-> head \o <<SepLine>> \o w2.lines,
          calls |-> <<c1, c2>>,
          seqAlloc |-> seqAlloc, seqFrees |-> IF seqAlloc THEN 2 ELSE 0,
          qualAlloc |-> qualAlloc, qualFrees |-> 0]
    ELSE [ret |-> EXIT_SUCCESS, lines |-> head \o <<SepLine>> \o w2.lines,
          calls |-> <<c1, c2>>,
          seqAlloc |-> seqAlloc, seqFrees |-> IF seqAlloc THEN 1 ELSE 0,
          qualAlloc |-> qualAlloc, qualFrees |-> IF qualAlloc THEN 1 ELSE 0]

\* the environments of a write_output call that differ in their effect
Envs(name, length, format) ==
    {Env(se, qe, sf, qf) :
        se \in IF FetchLen(name) = NOT_FOUND THEN {FALSE} ELSE BOOLEAN,
        qe \in IF FetchLen(name) = NOT_FOUND \/ format # FAI_FASTQ THEN {FALSE} ELSE BOOLEAN,
        sf \in 0..Iterations(FetchLen(name), length),
        qf \in IF format = FAI_FASTQ THEN 0..Iterations(FetchLen(name), length) ELSE {0}}

(* ------------------------------- state --------------------------------- *)
VARIABLES
    argv,          \* the command line (fixed during a run)
    rfile,         \* the region file named by -r: openable or not, its lines
    pc,            \* the position of faidx_core
    format, ignore_error, line_len, output_file, region_file,
    optind,        \* index of the current positional argument (1: the input file)
    rfpos,         \* lines of the region file read so far
    rret,          \* ret of read_regions_from_file
    exit_status,
    ret,           \* the value faidx_core returned
    fai,           \* the index handle: "NULL", "loaded" or "destroyed"
    fai_destroys,  \* number of fai_destroy calls
    built,         \* fai_build was called
    file_out,      \* "stdout", "opened" (fopen "w" succeeded), "closed"
    out,           \* the lines written to file_out
    stderr,        \* the messages printed
    wo,            \* the last write_output call
    emitted        \* the write_output calls made: source, index, name, result

vars == <<argv, rfile, pc, format, ignore_error, line_len, output_file, region_file,
          optind, rfpos, rret, exit_status, ret, fai, fai_destroys, built,
          file_out, out, stderr, wo, emitted>>

\* sequences over S of length at most n
RECURSIVE SeqsUpTo(_, _)
SeqsUpTo(S, n) ==
    IF n = 0 THEN {<<>>}
    ELSE LET T == SeqsUpTo(S, n - 1) IN T \cup {Append(t, x) : t \in T, x \in S}

\* the positional arguments: argv[optind..argc-1]
Pos == IF argv.file THEN <<Reg(0, 0, 0)>> \o argv.regs ELSE <<>>

\* no write_output call yet
NoCall == [ret |-> EXIT_SUCCESS, lines |-> <<>>, calls |-> <<>>,
           seqAlloc |-> FALSE, seqFrees |-> 0, qualAlloc |-> FALSE, qualFrees |-> 0]

\* the state at the entry of faidx_core (faidx_main: FAI_FASTA, fqidx_main:
\* FAI_FASTQ), for command lines and region files drawn from the given sets
InitWith(NSeqs, Lines, Args, Stops) ==
    /\ argv \in [entry : {FAI_FASTA, FAI_FASTQ}, n : NSeqs, c : BOOLEAN, f : BOOLEAN,
                 o : {NoPath, InPath, OutPath}, r : BOOLEAN, stop : Stops,
                 file : BOOLEAN, regs : Args]
    /\ argv.entry = FAI_FASTQ => ~argv.f
    /\ ~argv.file => argv.regs = <<>>
    /\ rfile \in [openable : BOOLEAN, lines : Lines]
    /\ ~argv.r => (rfile.openable /\ rfile.lines = <<>>)
    /\ ~rfile.openable => rfile.lines = <<>>
    /\ pc = "getopt"
    /\ format = argv.entry
    /\ ignore_error = FALSE
    /\ line_len = DEFAULT_FASTA_LINE_LEN
    /\ output_file = NoPath
    /\ region_file = FALSE
    /\ optind = 1
    /\ rfpos = 0
    /\ rret = EXIT_FAILURE
    /\ exit_status = EXIT_SUCCESS
    /\ ret = EXIT_SUCCESS
    /\ fai = "NULL"
    /\ fai_destroys = 0
    /\ built = FALSE
    /\ file_out = "stdout"
    /\ out = <<>>
    /\ stderr = <<>>
    /\ wo = NoCall
    /\ emitted = <<>>

\* the regions of the runs that exercise the driver
DriverRegions == {Reg(2, 0, INT_MAX), Reg(1, 0, 2), Reg(4, 0, INT_MAX)}
\* the regions of the runs that exercise write_line: every fetched length
\* 0..MaxLen, with and without a range, truncated or not
LineRegions ==
    {Reg(1, 0, INT_MAX), Reg(3, 0, INT_MAX), Reg(3, 0, 1), Reg(4, 0, INT_MAX)}
    \cup {Reg(1, 0, e) : e \in 1..(MaxLen + 1)}
\* the values of -n
NVals == {-5, 0, 1, 2}

Init == InitWith({<<>>, <<1>>}, SeqsUpTo(DriverRegions, MaxLines),
                 SeqsUpTo(DriverRegions, MaxArgs), {"none", "h", "?"})

InitLine ==
    /\ InitWith(SeqsUpTo(NVals, MaxNOpts), SeqsUpTo(LineRegions, 1),
                SeqsUpTo(LineRegions, 1), {"none", "h", "?"})
    /\ Len(rfile.lines) + Len(argv.regs) <= 1

(* ------------------------------ faidx_core ----------------------------- *)
\* atoi(optarg) of one -n option, and the fallback to the default
SetLineLen(v) == IF v < 1 THEN DEFAULT_FASTA_LINE_LEN ELSE v

\* line_len taken from the first -n option instead of the last
LineLenFirst(cur, ns) ==
    IF ns = <<>> THEN cur ELSE SetLineLen(Head(ns))

\* line_len after the -n options ns, in order
RECURSIVE LineLenAfter(_, _)
LineLenAfter(cur, ns) ==
    IF ns = <<>> THEN cur ELSE LineLenAfter(SetLineLen(Head(ns)), Tail(ns))

\* the "bad line length" warnings the -n options ns print
RECURSIVE BadLenWarnings(_)
BadLenWarnings(ns) ==
    IF ns = <<>> THEN <<>>
    ELSE (IF Head(ns) < 1 THEN <<"bad line length">> ELSE <<>>) \o BadLenWarnings(Tail(ns))

\* return v from faidx_core
Return(v) == ret' = v /\ pc' = "done"

\* the getopt_long loop
GetOpt ==
    /\ pc = "getopt"
    /\ line_len' = LineLenAfter(line_len, argv.n)
    /\ stderr' = stderr \o BadLenWarnings(argv.n)
    /\ output_file' = argv.o
    /\ ignore_error' = argv.c
    /\ region_file' = argv.r
    /\ format' = IF argv.f THEN FAI_FASTQ ELSE format
    /\ IF argv.stop = "?" THEN Return(EXIT_FAILURE)
       ELSE IF argv.stop = "h" THEN Return(EXIT_SUCCESS)
       ELSE pc' = "mode" /\ ret' = ret
    /\ UNCHANGED <<argv, rfile, optind, rfpos, rret, exit_status, fai, fai_destroys,
                   built, file_out, out, wo, emitted>>

\* argc == optind: usage
Usage ==
    /\ pc = "mode"
    /\ Len(Pos) = 0
    /\ Return(EXIT_SUCCESS)
    /\ UNCHANGED <<argv, rfile, format, ignore_error, line_len, output_file, region_file,
                   optind, rfpos, rret, exit_status, fai, fai_destroys, built,
                   file_out, out, stderr, wo, emitted>>

\* one positional argument and no region file: fai_build
Build ==
    /\ pc = "mode"
    /\ optind + 1 = Len(Pos) + 1
    /\ ~region_file
    /\ built' = TRUE
    /\ \E ok \in BOOLEAN :
          IF ok THEN Return(0) /\ stderr' = stderr
          ELSE Return(EXIT_FAILURE) /\ stderr' = Append(stderr, "could not build")
    /\ UNCHANGED <<argv, rfile, format, ignore_error, line_len, output_file, region_file,
                   optind, rfpos, rret, exit_status, fai, fai_destroys,
                   file_out, out, wo, emitted>>

\* fai_load_format
Load ==
    /\ pc = "mode"
    /\ Len(Pos) # 0
    /\ ~(optind + 1 = Len(Pos) + 1 /\ ~region_file)
    /\ \E ok \in BOOLEAN :
          IF ok THEN fai' = "loaded" /\ pc' = "output" /\ ret' = ret /\ stderr' = stderr
          ELSE fai' = fai /\ Return(EXIT_FAILURE) /\ stderr' = Append(stderr, "could not load")
    /\ UNCHANGED <<argv, rfile, format, ignore_error, line_len, output_file, region_file,
                   optind, rfpos, rret, exit_status, fai_destroys, built,
                   file_out, out, wo, emitted>>

\* the path of argv[optind], the input file
InputPath == InPath

\* the same-path test left out
SamePathNever(a, b) == FALSE

\* strcmp(output_file, argv[optind]) == 0
SamePath(a, b) == a = b

\* the output file given by the user: the same-path check and fopen
OpenOutput ==
    /\ pc = "output"
    /\ IF output_file # NoPath /\ SamePath(output_file, InputPath)
       THEN /\ Return(EXIT_FAILURE)
            /\ stderr' = Append(stderr, "same input/output")
            /\ UNCHANGED <<file_out, exit_status>>
       ELSE \E ok \in BOOLEAN :
            IF output_file # NoPath /\ ~ok
            THEN /\ Return(EXIT_FAILURE)
                 /\ stderr' = Append(stderr, "cannot open for writing")
                 /\ UNCHANGED <<file_out, exit_status>>
            ELSE /\ file_out' = IF output_file # NoPath THEN "opened" ELSE file_out
                 /\ exit_status' = EXIT_SUCCESS
                 /\ pc' = "regions"
                 /\ UNCHANGED <<ret, stderr>>
    /\ UNCHANGED <<argv, rfile, format, ignore_error, line_len, output_file, region_file,
                   optind, rfpos, rret, fai, fai_destroys, built, out, wo, emitted>>

\* hopen of the region file
OpenRegionFile ==
    /\ pc = "regions"
    /\ IF ~region_file THEN pc' = "args" /\ UNCHANGED <<rret, exit_status, stderr>>
       ELSE IF rfile.openable
       THEN pc' = "reading" /\ rret' = EXIT_FAILURE /\ UNCHANGED <<exit_status, stderr>>
       ELSE /\ pc' = "args"
            /\ exit_status' = EXIT_FAILURE
            /\ stderr' = Append(stderr, "failed to open for reading")
            /\ rret' = rret
    /\ UNCHANGED <<argv, rfile, format, ignore_error, line_len, output_file, region_file,
                   optind, rfpos, ret, fai, fai_destroys, built, file_out, out, wo, emitted>>

\* the effect of a write_output call on the stream, the messages and the log
RECURSIVE Warnings(_)
Warnings(calls) ==
    IF calls = <<>> THEN <<>> ELSE Head(calls).warn \o Warnings(Tail(calls))

Emit(src, idx, name, w) ==
    /\ out' = out \o w.lines
    /\ stderr' = stderr \o Warnings(w.calls)
    /\ wo' = w
    /\ emitted' = Append(emitted, [src |-> src, idx |-> idx, name |-> name, ret |-> w.ret,
                                   lens |-> [i \in 1..Len(w.calls) |-> w.calls[i].seq_len],
                                   lines |-> w.lines])

\* freeing a buffer twice is undefined: the call returns, or the process
\* is killed by the allocator
DoubleFree(w) == w.seqFrees > 1 \/ w.qualFrees > 1

\* one iteration of the loop of read_regions_from_file: kgetline gets a
\* line and write_output emits it; a failure breaks the loop
ReadRegion ==
    /\ pc = "reading"
    /\ rfpos < Len(rfile.lines)
    /\ rfpos' = rfpos + 1
    /\ \E env \in Envs(rfile.lines[rfpos + 1], line_len, format) :
          LET name == rfile.lines[rfpos + 1]
              w == WriteOutput(name, ignore_error, line_len, format, env) IN
          /\ Emit("file", rfpos + 1, name, w)
          /\ rret' = w.ret
          /\ \E crash \in IF DoubleFree(w) THEN BOOLEAN ELSE {FALSE} :
                IF crash THEN pc' = "aborted" /\ exit_status' = exit_status
                ELSE IF w.ret = EXIT_FAILURE
                THEN pc' = "args" /\ exit_status' = w.ret
                ELSE pc' = pc /\ exit_status' = exit_status
    /\ UNCHANGED <<argv, rfile, format, ignore_error, line_len, output_file, region_file,
                   optind, ret, fai, fai_destroys, built, file_out>>

\* kgetline reports the end of the region file: read_regions_from_file
\* returns ret, which is still its initial EXIT_FAILURE when no line was
\* read.  (The hclose that follows can only print a warning.)
RegionsEOF ==
    /\ pc = "reading"
    /\ rfpos = Len(rfile.lines)
    /\ exit_status' = rret
    /\ pc' = "args"
    /\ UNCHANGED <<argv, rfile, format, ignore_error, line_len, output_file, region_file,
                   optind, rfpos, rret, ret, fai, fai_destroys, built, file_out, out,
                   stderr, wo, emitted>>

\* one iteration of the loop over the positional regions
ArgRegion ==
    /\ pc = "args"
    /\ optind + 1 < Len(Pos) + 1
    /\ exit_status = EXIT_SUCCESS
    /\ optind' = optind + 1
    /\ \E env \in Envs(Pos[optind + 1], line_len, format) :
          LET name == Pos[optind + 1]
              w == WriteOutput(name, ignore_error, line_len, format, env) IN
          /\ Emit("arg", optind, name, w)
          /\ \E crash \in IF DoubleFree(w) THEN BOOLEAN ELSE {FALSE} :
                IF crash THEN pc' = "aborted" /\ exit_status' = exit_status
                ELSE pc' = pc /\ exit_status' = w.ret
    /\ UNCHANGED <<argv, rfile, format, ignore_error, line_len, output_file, region_file,
                   rfpos, rret, ret, fai, fai_destroys, built, file_out>>

\* the end of the loop: fai_destroy, fflush, fclose, return
Finish ==
    /\ pc = "args"
    /\ ~(optind + 1 < Len(Pos) + 1 /\ exit_status = EXIT_SUCCESS)
    /\ fai' = "destroyed"
    /\ fai_destroys' = fai_destroys + 1
    /\ file_out' = IF output_file # NoPath THEN "closed" ELSE file_out
    /\ \E flushed \in BOOLEAN :
          IF flushed THEN Return(exit_status) /\ stderr' = stderr
          ELSE Return(EXIT_FAILURE) /\ stderr' = Append(stderr, "failed to flush")
    /\ UNCHANGED <<argv, rfile, format, ignore_error, line_len, output_file, region_file,
                   optind, rfpos, rret, exit_status, built, out, wo, emitted>>

Next ==
    \/ GetOpt
    \/ Usage
    \/ Build
    \/ Load
    \/ OpenOutput
    \/ OpenRegionFile
    \/ ReadRegion
    \/ RegionsEOF
    \/ ArgRegion
    \/ Finish

Spec == Init /\ [][Next]_vars
SpecLine == InitLine /\ [][Next]_vars

(* ------------------------------ helpers -------------------------------- *)
InSeq(x, s) == \E i \in 1..Len(s) : s[i] = x

\* the bytes of a sequence of lines, newlines left out
RECURSIVE Concat(_)
Concat(ls) == IF ls = <<>> THEN <<>> ELSE Head(ls).bytes \o Concat(Tail(ls))

Ceil(L, W) == IF L % W = 0 THEN L \div W ELSE (L \div W) + 1

\* the write_line calls of the last write_output call
Calls == {wo.calls[i] : i \in 1..Len(wo.calls)}

WriteFailed(c) == InSeq("write failed", c.warn)

(* ================================ C1 =================================== *)
\* the lines of call c are the buffer wrapped at c.length
WrappedOK(c) ==
    LET L == c.seq_len
        W == c.length
        n == Len(c.lines) IN
    /\ n = Ceil(L, W)
    /\ Concat(c.lines) = SubSeq(c.line, 1, L)
    /\ \A j \in 1..n :
          /\ c.lines[j].k = "body"
          /\ Len(c.lines[j].bytes) = IF j < n THEN W ELSE IF L % W = 0 THEN W ELSE L % W
    /\ (L = 0 => c.lines = <<>>)

\* C1: for every fetched buffer of length L >= 0 and every wrap width
\* W >= 1, write_line emits exactly ceil(L/W) lines whose concatenation is
\* the buffer's first L bytes; every line has length W except possibly the
\* last, of length L mod W (W when L is a positive multiple of W); for
\* L = 0 no line is emitted.  (When a write to the stream fails write_line
\* returns failure after a proper prefix of these lines.)
C1_WrappedLines ==
    \A c \in Calls :
        (c.seq_len >= 0 /\ c.length >= 1) =>
            /\ c.ret = EXIT_SUCCESS => WrappedOK(c)
            /\ c.ret = EXIT_SUCCESS <=> ~WriteFailed(c)
            /\ c.ret # EXIT_SUCCESS =>
                  /\ Len(c.lines) < Ceil(c.seq_len, c.length)
                  /\ Concat(c.lines) = SubSeq(c.line, 1, Len(c.lines) * c.length)

\* a buffer wrapped into several lines, the last one shorter
C1_Witness ==
    \E c \in Calls :
        /\ c.ret = EXIT_SUCCESS
        /\ c.length > 1
        /\ c.seq_len > c.length
        /\ c.seq_len % c.length # 0
        /\ Len(c.lines) = Ceil(c.seq_len, c.length)

(* ================================ C8 =================================== *)
\* the region of call c has an explicit coordinate range
HasRange(c) == HtsParseReg(c.name).ok /\ HtsParseReg(c.name).end < INT_MAX
Span(c) == HtsParseReg(c.name).end - HtsParseReg(c.name).beg
Truncated(c) == InSeq("truncated", c.warn)

\* C8 as stated: for every region with an explicit range whose fetch gives
\* a length L >= 0 different from the span, L = 0 included, write_line
\* issues the truncation warning, emits all L bytes and returns success;
\* when L equals the span or there is no range, no truncation warning.
C8_Original ==
    \A c \in Calls :
        c.seq_len >= 0 =>
            /\ (HasRange(c) /\ c.seq_len # Span(c)) =>
                  /\ Truncated(c)
                  /\ ~WriteFailed(c) =>
                        (c.ret = EXIT_SUCCESS /\ Concat(c.lines) = c.line)
            /\ (~HasRange(c) \/ c.seq_len = Span(c)) => ~Truncated(c)

\* C8 (amended): for every region with an explicit range (its end below
\* INT_MAX) whose fetch gives
\* a length L >= 1 different from the span, write_line issues the truncation
\* warning; for L = 0 it issues the zero-length warning and no truncation
\* warning; when L equals the span or there is no range, no truncation
\* warning.  Whatever the warning, all L bytes are emitted and success is
\* returned unless a write fails.
C8_TruncationWarning ==
    \A c \in Calls :
        c.seq_len >= 0 =>
            /\ (HasRange(c) /\ c.seq_len >= 1 /\ c.seq_len # Span(c)) => Truncated(c)
            /\ c.seq_len = 0 => (InSeq("zero length", c.warn) /\ ~Truncated(c))
            /\ (~HasRange(c) \/ c.seq_len = Span(c)) => ~Truncated(c)
            /\ ~WriteFailed(c) =>
                  (c.ret = EXIT_SUCCESS /\ Concat(c.lines) = c.line
                   /\ Len(c.line) = c.seq_len)
            /\ c.ret = EXIT_FAILURE => WriteFailed(c)

\* a truncated region whose bytes are all emitted
C8_Witness ==
    \E c \in Calls :
        /\ HasRange(c)
        /\ c.seq_len >= 1
        /\ c.seq_len # Span(c)
        /\ Truncated(c)
        /\ c.ret = EXIT_SUCCESS
        /\ Concat(c.lines) = c.line

(* ================================ C9 =================================== *)
\* the width the -n options ask for: the last value when it is >= 1,
\* the default otherwise
ExpectedWidth ==
    LET n == argv.n IN
    IF n = <<>> THEN 60
    ELSE IF n[Len(n)] >= 1 THEN n[Len(n)] ELSE 60

\* one step of a run, for C9
C9_Step ==
    /\ pc = "getopt" =>
          /\ line_len' = ExpectedWidth
          /\ line_len' >= 1
          /\ (argv.n # <<>> /\ argv.n[Len(argv.n)] < 1) => InSeq("bad line length", stderr')
          /\ argv.stop = "none" => pc' = "mode"
    /\ pc # "getopt" => line_len' = line_len
    /\ \A i \in 1..Len(wo'.calls) :
          /\ wo'.calls[i].length >= 1
          /\ wo'.calls[i].length = ExpectedWidth
\* C9: for every sequence of -n options the wrap width passed to every
\* write_line call is >= 1: the value of the last -n option when that is
\* >= 1, and 60 when that value is < 1 (a warning is then printed) or when
\* there is no -n option; an invalid value never makes the run fail (the
\* option loop goes on to the dispatch).
C9_WrapWidth == [][C9_Step]_vars

\* a write_line call made after two -n options, the last of them invalid
C9_Witness ==
    /\ Len(argv.n) >= 2
    /\ argv.n[1] >= 1
    /\ argv.n[Len(argv.n)] < 1
    /\ InSeq("bad line length", stderr)
    /\ \E c \in Calls : c.length = 60 /\ c.ret = EXIT_SUCCESS /\ c.seq_len > 0

(* ------------------------- the regions of a run ------------------------ *)
\* the regions in input order: the lines of the region file, then the
\* positional region arguments
Order ==
    LET nf == Len(rfile.lines)
        na == Len(argv.regs) IN
    [i \in 1..(nf + na) |->
        IF i <= nf THEN [src |-> "file", idx |-> i, name |-> rfile.lines[i]]
        ELSE [src |-> "arg", idx |-> i - nf, name |-> argv.regs[i - nf]]]

\* the fetch of emission e reported "not found" / another failure
NotFoundE(e) == e.lens[1] = NOT_FOUND
FetchErrorE(e) == \E i \in 1..Len(e.lens) : e.lens[i] < 0 /\ e.lens[i] # NOT_FOUND

FlushFailed == InSeq("failed to flush", stderr)
RegionFileFailed == region_file /\ ~rfile.openable

\* a run that loaded the index, opened the output and ran to its return
FetchRunDone == pc = "done" /\ fai = "destroyed"

(* ================================ C2 =================================== *)
\* the run stopped at emission i and fails
StoppedAt(i) ==
    /\ i = Len(emitted)
    /\ pc \in {"args", "done", "aborted"}
    /\ pc = "args" => exit_status = EXIT_FAILURE
    /\ pc = "done" => ret = EXIT_FAILURE

\* the run goes on after emission i
GoesOnAfter(i) ==
    i = Len(emitted) =>
        /\ pc \in {"reading", "args", "done"}
        /\ pc = "reading" => rret = EXIT_SUCCESS
        /\ pc = "args" => exit_status = EXIT_SUCCESS
        /\ pc = "done" => (i = Len(Order) /\ (ret = EXIT_FAILURE => FlushFailed))

\* C2: when a region's fetch reports "not found" (-2): without continue-mode
\* the run returns failure and no later region is processed; with
\* continue-mode the region does not make the run fail and the later
\* regions are still processed.  Any other fetch failure makes the run fail
\* and stops the processing, with or without continue-mode.
C2_ContinueOnNotFound ==
    /\ \A i \in 1..Len(emitted) :
          LET e == emitted[i] IN
          /\ (NotFoundE(e) /\ ~ignore_error) => (e.ret = EXIT_FAILURE /\ StoppedAt(i))
          /\ (NotFoundE(e) /\ ignore_error) => (e.ret = EXIT_SUCCESS /\ GoesOnAfter(i))
          /\ FetchErrorE(e) => (e.ret = EXIT_FAILURE /\ StoppedAt(i))
    /\ (pc = "done" /\ emitted # <<>>
        /\ \A i \in 1..Len(emitted) : emitted[i].ret = EXIT_SUCCESS)
          => Len(emitted) = Len(Order)

\* continue-mode: a region file line is not found, the positional region
\* after it is processed and the run returns success
C2_Witness ==
    /\ pc = "done"
    /\ ignore_error
    /\ ret = EXIT_SUCCESS
    /\ \E i \in 1..Len(emitted) :
          /\ NotFoundE(emitted[i])
          /\ emitted[i].src = "file"
          /\ i < Len(emitted)
          /\ emitted[Len(emitted)].src = "arg"
          /\ ~NotFoundE(emitted[Len(emitted)])

(* ================================ C3 =================================== *)
\* the command line names an input file and gives it as the output too
SameInOut == argv.file /\ argv.o = InputPath
\* region arguments or a region file are given
FetchMode == argv.r \/ Len(argv.regs) >= 1

\* C3 as stated: whenever the -o path equals the input path, in index-build
\* mode as in fetch mode, the process returns failure at once: no index is
\* built or loaded, the output is never opened, no record is written.
\* (Stated for command lines without -h or an unknown option.)
C3_Original ==
    (SameInOut /\ argv.stop = "none") =>
        /\ ~built
        /\ fai = "NULL"
        /\ file_out = "stdout"
        /\ out = <<>>
        /\ pc = "done" => ret = EXIT_FAILURE

\* C3 (amended): in fetch mode (the options parsed without -h or an unknown
\* option), when the -o path equals the input path the process returns
\* failure before any region is processed: the output is never opened for
\* writing, no record is written, fai_build is not called; the index is
\* loaded first, and is still loaded at the return.  In index-build mode -o
\* is not looked at: fai_build is called and nothing is opened or written.
C3_SameInputOutput ==
    (SameInOut /\ argv.stop = "none") =>
        /\ file_out = "stdout"
        /\ out = <<>>
        /\ emitted = <<>>
        /\ FetchMode =>
              /\ ~built
              /\ pc \in {"getopt", "mode", "output", "done"}
              /\ pc = "done" => ret = EXIT_FAILURE
              /\ pc = "done" =>
                    (fai = "loaded" <=> InSeq("same input/output", stderr))
              /\ fai # "destroyed"
        /\ ~FetchMode =>
              /\ fai = "NULL"
              /\ pc \in {"getopt", "mode", "done"}
              /\ pc = "done" => built

\* a fetch run refused because the output is the input
C3_Witness ==
    /\ SameInOut
    /\ FetchMode
    /\ pc = "done"
    /\ ret = EXIT_FAILURE
    /\ fai = "loaded"
    /\ InSeq("same input/output", stderr)
    /\ file_out = "stdout"

(* ================================ C4 =================================== *)
\* C4: on every path of faidx_core on which the index handle was obtained,
\* the handle is released exactly once before faidx_core returns, the
\* early returns (same input/output, output not opened) included.
C4_HandleReleased ==
    /\ fai_destroys <= 1
    /\ (pc = "done" /\ fai # "NULL") => (fai = "destroyed" /\ fai_destroys = 1)

(* ================================ C5 =================================== *)
\* C5: a fetch run returns failure if and only if some step failed: the
\* region file could not be opened, an emission returned failure, or the
\* flush failed.
C5_ExitStatus ==
    FetchRunDone =>
        (ret = EXIT_FAILURE <=>
            \/ RegionFileFailed
            \/ \E i \in 1..Len(emitted) : emitted[i].ret = EXIT_FAILURE
            \/ FlushFailed)

(* ================================ C6 =================================== *)
\* buf wrapped at W
Wrap(buf, W) ==
    [j \in 1..Ceil(Len(buf), W) |->
        BodyLine(SubSeq(buf, (j - 1) * W + 1, Min(j * W, Len(buf))))]

\* the well-formed record of region r
Record(fmt, r, W) ==
    <<HeaderLine(fmt, r)>> \o Wrap(SeqBuf(r, FetchLen(r)), W)
    \o (IF fmt = FAI_FASTQ THEN <<SepLine>> \o Wrap(QualBuf(r, FetchLen(r)), W) ELSE <<>>)

\* the records of the found names among the first n emissions
RECURSIVE Records(_)
Records(n) ==
    IF n = 0 THEN <<>>
    ELSE Records(n - 1) \o (IF FetchLen(emitted[n].name) = NOT_FOUND THEN <<>>
                            ELSE Record(format, emitted[n].name, line_len))

\* every emission so far is of a name not found or went through
FoundOrMissing ==
    \A i \in 1..Len(emitted) :
        \/ NotFoundE(emitted[i])
        \/ (emitted[i].ret = EXIT_SUCCESS /\ \A j \in 1..Len(emitted[i].lens) : emitted[i].lens[j] >= 0)

\* C6: in continue-mode, when some names are not found and all others are
\* fetched and written, the output holds exactly the well-formed records
\* of the found names in input order, nothing is written for a name that
\* is not found, and the exit code is 0.
C6_ContinueOutput ==
    (ignore_error /\ FoundOrMissing) =>
        /\ out = Records(Len(emitted))
        /\ (FetchRunDone /\ ~RegionFileFailed /\ ~FlushFailed) => ret = 0

(* ================================ C7 =================================== *)
\* the region file and the positional arguments have been gone through
LoopsOver ==
    \/ FetchRunDone
    \/ (pc = "args" /\ ~(optind + 1 < Len(Pos) + 1 /\ exit_status = EXIT_SUCCESS))

\* C7: the write_output calls are a prefix of the region file lines in file
\* order followed by the positional regions in argument order, each at most
\* once; the prefix is proper only when an emission failed or the region
\* file could not be opened; after a failed emission nothing is emitted.
C7_InputOrder ==
    /\ Len(emitted) <= Len(Order)
    /\ \A i \in 1..Len(emitted) :
          /\ emitted[i].src = Order[i].src
          /\ emitted[i].idx = Order[i].idx
          /\ emitted[i].name = Order[i].name
          /\ emitted[i].ret = EXIT_FAILURE => i = Len(emitted)
    /\ (LoopsOver /\ Len(emitted) < Len(Order)) =>
          \/ RegionFileFailed
          \/ \E i \in 1..Len(emitted) : emitted[i].ret = EXIT_FAILURE

(* ================================ C10 ================================== *)
\* C10: on every path of write_output each buffer fai_fetch and
\* fai_fetchqual returned is freed exactly once.
C10_FreedOnce ==
    /\ wo.seqAlloc => wo.seqFrees = 1
    /\ wo.qualAlloc => wo.qualFrees = 1

====
